---- MODULE Spec2Model ----
(***************************************************************************)
(* coursera-dl: parse_args / validate_args / main of coursera/coursera.py. *)
(*                                                                         *)
(* The state is the argparse namespace `args` that main() hands to         *)
(* validate_args(), the position of the run inside validate_args(), the    *)
(* process exit status, and the trace of calls made to the collaborators   *)
(* (os.path.exists, utils.netrc_credentials, getpass.getpass, logging).    *)
(*                                                                         *)
(* Python values are tagged records [t |-> type, v |-> value].  A str that *)
(* the code splits (sections, formats, skip_formats) is a sequence of      *)
(* one-character strings; a str the code only tests and passes on (parser, *)
(* cookies, netrc, username, password, backend binaries) is a TLA+ string. *)
(***************************************************************************)
EXTENDS Integers, Sequences, FiniteSets, TLC

VARIABLES args, parsed, pc, exit_status, returned, calls, logged

vars == <<args, parsed, pc, exit_status, returned, calls, logged>>

(*************************** bounds of the model ***************************)
MaxSectionsLen == 3
MaxFormatsLen == 3

(***************************** Python values *******************************)
None == [t |-> "None", v |-> "None"]
True == [t |-> "bool", v |-> TRUE]
PyStr(s) == [t |-> "str", v |-> s]
PyInt(n) == [t |-> "int", v |-> n]
PyList(xs) == [t |-> "list", v |-> xs]

\* Python truth value of the values the code tests with `if x:` / `if not x:`.
Truthy(x) ==
    CASE x.t = "None" -> FALSE
      [] x.t = "bool" -> x.v
      [] x.t = "str"  -> x.v # ""
      [] x.t = "int"  -> x.v # 0
      [] x.t = "list" -> x.v # <<>>

\* x == y on Python values (type first, then value).
Same(x, y) == x.t = y.t /\ x.v = y.v

(************************ str.split(), int(), lstrip ************************)
Whitespace == {" "}
Digits == {"0", "1", "2"}

DigitVal(c) == CASE c = "0" -> 0 [] c = "1" -> 1 [] c = "2" -> 2

Drop(s, n) == SubSeq(s, n + 1, Len(s))

RECURSIVE SkipWs(_)
SkipWs(s) ==
    IF s # <<>> /\ Head(s) \in Whitespace THEN SkipWs(Tail(s)) ELSE s

RECURSIVE TakeTok(_)
TakeTok(s) ==
    IF s = <<>> \/ Head(s) \in Whitespace THEN <<>>
    ELSE <<Head(s)>> \o TakeTok(Tail(s))

\* s.split(): the maximal runs of non-whitespace characters, in order.
RECURSIVE Split(_)
Split(s) ==
    LET r == SkipWs(s) IN
    IF r = <<>> THEN <<>>
    ELSE LET tok == TakeTok(r) IN <<tok>> \o Split(Drop(r, Len(tok)))

AllDigits(s) == s # <<>> /\ \A i \in 1..Len(s) : s[i] \in Digits

RECURSIVE DecVal(_)
DecVal(s) ==
    IF s = <<>> THEN 0 ELSE 10 * DecVal(SubSeq(s, 1, Len(s) - 1)) + DigitVal(s[Len(s)])

\* int(x) succeeds: an optional sign followed by one or more decimal digits.
IntOk(tok) ==
    IF tok # <<>> /\ Head(tok) \in {"-", "+"} THEN AllDigits(Tail(tok))
    ELSE AllDigits(tok)

IntVal(tok) ==
    IF Head(tok) = "-" THEN 0 - DecVal(Tail(tok))
    ELSE IF Head(tok) = "+" THEN DecVal(Tail(tok))
    ELSE DecVal(tok)

\* s.lstrip('.'): every leading '.' is removed.
RECURSIVE LStripDot(_)
LStripDot(s) ==
    IF s # <<>> /\ Head(s) = "." THEN LStripDot(Tail(s)) ELSE s

\* Variant: tokens int() rejects are skipped instead of failing the whole list.
ParseSections_SkipBad(s) ==
    LET toks == Split(s)
        good == SelectSeq(toks, IntOk)
    IN [ok |-> TRUE, v |-> [i \in 1..Len(good) |-> IntVal(good[i])]]

\* [int(x) for x in s.split()]: the list, or the exception of the first bad token.
ParseSections(s) ==
    LET toks == Split(s) IN
    IF \A i \in 1..Len(toks) : IntOk(toks[i])
    THEN [ok |-> TRUE, v |-> [i \in 1..Len(toks) |-> IntVal(toks[i])]]
    ELSE [ok |-> FALSE, v |-> <<>>]

\* [s.lstrip('.') for s in text.split()]
SplitExtensions(s) ==
    LET toks == Split(s) IN [i \in 1..Len(toks) |-> LStripDot(toks[i])]

(************************* parse_args: the namespace ************************)
DefaultMaxFilenameLength == 100

ValidParsers == {"html5lib", "html.parser", "lxml"}

DefaultArgs ==
    [parser |-> PyStr("html5lib"),
     sections |-> PyStr(<<>>),
     formats |-> PyStr(<<>>),
     skip_formats |-> PyStr(<<>>),
     cookies |-> None,
     netrc |-> None,
     username |-> None,
     password |-> None,
     wget |-> None,
     curl |-> None,
     aria2 |-> None,
     axel |-> None,
     max_filename_length |-> PyInt(DefaultMaxFilenameLength)]

Fields == DOMAIN DefaultArgs

\* All character strings over `chars` of length at most n.
Strs(chars, n) == UNION {[1..k -> chars] : k \in 0..n}

SectionChars == {" ", "1", "2", "-", "x"}
FormatChars == {" ", ".", "m", "P"}

\* --parser takes any string.
ParserValues == {PyStr(p) : p \in ValidParsers \cup {"bogus"}}
\* --cookies FILE: absent, or any string (the empty one included).
CookiesValues == {None, PyStr(""), PyStr("cookies.txt")}
\* --netrc [FILE]: absent, bare (const=True), or any string.
NetrcValues == {None, True, PyStr(""), PyStr("my.netrc")}
UsernameValues == {None, PyStr(""), PyStr("alice")}
PasswordValues == {None, PyStr(""), PyStr("pw")}
\* --wget [BIN] and the like: absent, or the const binary name.
BackendValues(const) == {None, PyStr(const)}
\* --max-filename-length NUMBER, type=int.
MaxFilenameLengthValues == {PyInt(0 - 1), PyInt(0), PyInt(DefaultMaxFilenameLength)}

SampleSections ==
    {PyStr(<<>>), PyStr(<<"1", " ", "2">>), PyStr(<<"1", " ", "x">>)}
SampleFormats ==
    {PyStr(<<>>), PyStr(<<".", "m", " ", "P">>)}

\* Namespaces parse_args can return; strings bounded as named.
ArgsAuth ==
    {[DefaultArgs EXCEPT !.parser = p, !.sections = s, !.formats = f,
                         !.cookies = c, !.netrc = n,
                         !.username = u, !.password = w,
                         !.wget = b[1], !.curl = b[2], !.aria2 = b[3], !.axel = b[4],
                         !.max_filename_length = m] :
        p \in ParserValues, s \in SampleSections, f \in SampleFormats,
        c \in CookiesValues, n \in NetrcValues,
        u \in UsernameValues, w \in PasswordValues,
        b \in BackendValues("wget") \X BackendValues("curl")
              \X BackendValues("aria2c") \X BackendValues("axel"),
        m \in MaxFilenameLengthValues}

ArgsSections ==
    {[DefaultArgs EXCEPT !.parser = p, !.sections = PyStr(s),
                         !.username = u, !.password = PyStr("pw")] :
        p \in ParserValues, s \in Strs(SectionChars, MaxSectionsLen),
        u \in {None, PyStr("alice")}}

ArgsFormats ==
    {[DefaultArgs EXCEPT !.formats = PyStr(f), !.skip_formats = PyStr(g),
                         !.username = u, !.password = PyStr("pw")] :
        f \in Strs(FormatChars, MaxFormatsLen),
        g \in Strs(FormatChars, MaxFormatsLen),
        u \in {None, PyStr("alice")}}

(****************************** collaborators *******************************)
\* utils.netrc_credentials(path): None, or a (login, password) pair.
NetrcResults == {<<>>, <<"bob", "s3cret">>, <<"", "">>}
\* getpass.getpass(prompt): whatever the operator types.
PromptResults == {"typed", ""}

Call(fn, arg, ret) == [fn |-> fn, arg |-> arg, ret |-> ret]

(********************************* main ************************************)
\* main(): args = parse_args(), logging configured, validate_args(args) entered.
InitWith(S) ==
    /\ args \in S
    /\ parsed = args
    /\ pc = "check_parser"
    /\ exit_status = <<>>
    /\ returned = <<>>
    /\ calls = <<>>
    /\ logged = <<>>

Init == InitWith(ArgsAuth)
InitSections == InitWith(ArgsSections)
InitFormats == InitWith(ArgsFormats)

\* sys.exit(1) after logging.error(msg): SystemExit leaves main(), status 1.
Exit(msg) ==
    /\ logged' = Append(logged, msg)
    /\ pc' = "exited"
    /\ exit_status' = <<1>>

(****************************** validate_args *******************************)
\* Variant: the parser name is never rejected.
ParserInvalid_Dropped(a) == FALSE

\* args.parser not in ['html5lib', 'html.parser', 'lxml']
ParserInvalid(a) == a.parser.v \notin ValidParsers

\* Check the parser.
CheckParser ==
    /\ pc = "check_parser"
    /\ \E old_python \in (IF args.parser.v = "html.parser" THEN BOOLEAN ELSE {FALSE}) :
         LET warned == IF args.parser.v = "html.parser" /\ old_python
                       THEN Append(logged, "info: html.parser may cause problems")
                       ELSE logged
         IN IF ParserInvalid(args)
            THEN /\ logged' = Append(warned, "error: Invalid parser")
                 /\ pc' = "exited"
                 /\ exit_status' = <<1>>
            ELSE /\ logged' = warned
                 /\ pc' = "check_sections"
                 /\ UNCHANGED exit_status
    /\ UNCHANGED <<args, parsed, returned, calls>>

\* Variant: the except handler leaves an empty list behind before exiting.
CheckSections_ClearOnError ==
    /\ pc = "check_sections"
    /\ LET r == ParseSections(args.sections.v) IN
       IF r.ok
       THEN /\ args' = [args EXCEPT !.sections = PyList(r.v)]
            /\ pc' = "split_formats"
            /\ UNCHANGED <<exit_status, logged>>
       ELSE /\ Exit("error: Invalid sections list")
            /\ args' = [args EXCEPT !.sections = PyList(<<>>)]
    /\ UNCHANGED <<parsed, returned, calls>>

\* Check if sections is a list of integers.
CheckSections ==
    /\ pc = "check_sections"
    /\ LET r == ParseSections(args.sections.v) IN
       IF r.ok
       THEN /\ args' = [args EXCEPT !.sections = PyList(r.v)]
            /\ pc' = "split_formats"
            /\ UNCHANGED <<exit_status, logged>>
       ELSE /\ Exit("error: Invalid sections list")
            /\ UNCHANGED args
    /\ UNCHANGED <<parsed, returned, calls>>

\* Split string of extensions, remove prefixing dot.
SplitFormats ==
    /\ pc = "split_formats"
    /\ args' = [args EXCEPT !.formats = PyList(SplitExtensions(args.formats.v)),
                            !.skip_formats = PyList(SplitExtensions(args.skip_formats.v))]
    /\ pc' = "credentials"
    /\ UNCHANGED <<parsed, exit_status, returned, calls, logged>>

\* Variant: a netrc request takes precedence over the cookies file.
UseCookies_NetrcFirst(a) == Truthy(a.cookies) /\ ~Truthy(a.netrc)

\* `if args.cookies:`
UseCookies(a) == Truthy(a.cookies)

\* `if args.netrc:`
UseNetrc(a) == Truthy(a.netrc)

\* Variant: the username is only demanded once a password is at hand.
UsernameMissing_OnlyWithPassword(a) == ~Truthy(a.username) /\ Truthy(a.password)

\* `if not args.username:`
UsernameMissing(a) == ~Truthy(a.username)

\* Variant: `if args.password is None:`.
PasswordMissing_IsNone(a) == a.password.t = "None"

\* `if not args.password:`
PasswordMissing(a) == ~Truthy(a.password)

\* None if args.netrc is True else args.netrc
NetrcPath(a) == IF Same(a.netrc, True) THEN None ELSE a.netrc

\* Variant: an explicit --username/--password survives the netrc lookup.
NetrcArgs_KeepExplicit(a, credentials) ==
    [a EXCEPT !.username = IF a.username.t = "None" THEN PyStr(credentials[1]) ELSE @,
              !.password = IF a.password.t = "None" THEN PyStr(credentials[2]) ELSE @]

\* args.username = credentials[0]; args.password = credentials[1]
NetrcArgs(a, credentials) ==
    [a EXCEPT !.username = PyStr(credentials[1]), !.password = PyStr(credentials[2])]

\* args.password = getpass.getpass(...)
PromptArgs(a, typed) == [a EXCEPT !.password = PyStr(typed)]

\* `return args` of validate_args.
Return(a) ==
    /\ args' = a
    /\ returned' = <<a>>
    /\ pc' = "returned"
    /\ UNCHANGED exit_status

\* The cookies / netrc / username-password block, up to `return args`.
ResolveCredentials ==
    /\ pc = "credentials"
    /\ IF UseCookies(args)
       THEN \E exists \in BOOLEAN :
              /\ calls' = Append(calls, Call("os.path.exists", args.cookies, exists))
              /\ IF ~exists
                 THEN Exit("error: Cookies file not found") /\ UNCHANGED <<args, returned>>
                 ELSE Return(args) /\ UNCHANGED logged
       ELSE IF UseNetrc(args)
       THEN \E credentials \in NetrcResults :
              /\ calls' = Append(calls, Call("netrc_credentials", NetrcPath(args),
                                             credentials))
              /\ IF credentials = <<>>
                 THEN /\ Exit("error: No credentials found in .netrc file")
                      /\ UNCHANGED <<args, returned>>
                 ELSE /\ logged' = Append(logged, "info: Credentials found in .netrc file")
                      /\ Return(NetrcArgs(args, credentials))
       ELSE IF UsernameMissing(args)
       THEN /\ Exit("error: Please provide a username")
            /\ UNCHANGED <<args, returned, calls>>
       ELSE IF PasswordMissing(args)
       THEN \E typed \in PromptResults :
              /\ calls' = Append(calls, Call("getpass", args.username, typed))
              /\ Return(PromptArgs(args, typed))
              /\ UNCHANGED logged
       ELSE Return(args) /\ UNCHANGED <<calls, logged>>
    /\ UNCHANGED parsed

\* main() after validate_args returned: log the version banner, fall off the end.
MainLogVersion ==
    /\ pc = "returned"
    /\ logged' = Append(logged, "info: Coursera-dl version")
    /\ pc' = "finished"
    /\ exit_status' = <<0>>
    /\ UNCHANGED <<args, parsed, returned, calls>>

Next ==
    \/ CheckParser
    \/ CheckSections
    \/ SplitFormats
    \/ ResolveCredentials
    \/ MainLogVersion

Spec == Init /\ [][Next]_vars
SpecSections == InitSections /\ [][Next]_vars
SpecFormats == InitFormats /\ [][Next]_vars

(***************************************************************************)
(*                               Properties                                *)
(***************************************************************************)
Given(x) == x.t # "None"

SameArgs(a, b) == \A f \in Fields : Same(a[f], b[f])

Called(fn) == \E i \in 1..Len(calls) : calls[i].fn = fn
NumCalls(fn) == Cardinality({i \in 1..Len(calls) : calls[i].fn = fn})
RetOf(fn) == calls[CHOOSE i \in 1..Len(calls) : calls[i].fn = fn].ret

Errors == {i \in 1..Len(logged) : SubSeq(logged, i, i) \in
              {<<"error: Invalid parser">>, <<"error: Invalid sections list">>,
               <<"error: Cookies file not found">>,
               <<"error: No credentials found in .netrc file">>,
               <<"error: Please provide a username">>}}
LastLogged == IF logged = <<>> THEN "" ELSE logged[Len(logged)]

Exited == pc = "exited"
Returned == pc \in {"returned", "finished"}
Ended == Exited \/ Returned

\* The parsed parser name and sections string pass the first two checks.
FiltersValid ==
    /\ parsed.parser.v \in ValidParsers
    /\ \A i \in 1..Len(Split(parsed.sections.v)) : IntOk(Split(parsed.sections.v)[i])

CredentialsAsParsed ==
    /\ Same(args.username, parsed.username)
    /\ Same(args.password, parsed.password)

(* C1 as stated: whenever --cookies is given (any value, the empty string   *)
(* included), the netrc lookup is never made, the password prompt is never  *)
(* invoked, and username and password stay as parsed.                       *)
C1_Original ==
    Given(parsed.cookies) =>
        ~Called("netrc_credentials") /\ ~Called("getpass") /\ CredentialsAsParsed

(* C1 amended: whenever --cookies is given with a non-empty value, at every *)
(* point of the run the netrc lookup has not been made, the password prompt *)
(* has not been invoked, and username and password are as parsed, whatever  *)
(* --netrc, --username and --password carry.                                *)
C1_CookiesShortCircuit ==
    (Given(parsed.cookies) /\ parsed.cookies.v # "") =>
        ~Called("netrc_credentials") /\ ~Called("getpass") /\ CredentialsAsParsed

\* A run with --cookies and --netrc both set that came out of validate_args.
C1_Witness ==
    /\ Returned
    /\ Given(parsed.cookies) /\ parsed.cookies.v # ""
    /\ Same(parsed.netrc, True)
    /\ ~Given(parsed.username)
    /\ Called("os.path.exists")

(* C2: when none of --cookies, --netrc, --username is given and the parser  *)
(* name and sections list are valid, the run never returns a configuration, *)
(* never invokes the password prompt, and ends with exit status 1 after     *)
(* logging the missing-username error, whether or not --password was given. *)
C2_MissingUsernameExits ==
    (/\ ~Given(parsed.cookies) /\ ~Given(parsed.netrc) /\ ~Given(parsed.username)
     /\ FiltersValid) =>
        /\ ~Called("getpass")
        /\ ~Returned
        /\ Exited => /\ exit_status = <<1>>
                     /\ LastLogged = "error: Please provide a username"
                     /\ returned = <<>>

\* Such a run, with --password given, after it ended.
C2_Witness ==
    /\ Exited
    /\ ~Given(parsed.cookies) /\ ~Given(parsed.netrc) /\ ~Given(parsed.username)
    /\ FiltersValid
    /\ Given(parsed.password) /\ parsed.password.v = "pw"

\* The precondition of C3; `nonempty` restricts --username to non-empty values.
C3_Case(nonempty) ==
    /\ ~Given(parsed.cookies) /\ ~Given(parsed.netrc)
    /\ Given(parsed.username) /\ (nonempty => parsed.username.v # "")
    /\ FiltersValid
    /\ Ended

C3_PromptedOnce ==
    /\ Returned
    /\ NumCalls("getpass") = 1
    /\ Same(returned[1].username, parsed.username)
    /\ Same(returned[1].password, PyStr(RetOf("getpass")))

C3_PasswordKept ==
    /\ Returned
    /\ ~Called("getpass")
    /\ Same(returned[1].username, parsed.username)
    /\ Same(returned[1].password, parsed.password)

(* C3 as stated: with neither --cookies nor --netrc and with --username     *)
(* given, a given --password (any value) is the resulting password and the  *)
(* prompt is never invoked; without --password the prompt is invoked        *)
(* exactly once and the run returns the username with the prompted value.   *)
C3_Original ==
    C3_Case(FALSE) =>
        IF Given(parsed.password) THEN C3_PasswordKept ELSE C3_PromptedOnce

(* C3 amended: with neither --cookies nor --netrc and with a non-empty      *)
(* --username, a non-empty --password is the resulting password and the     *)
(* prompt is never invoked; when --password is absent or empty the prompt   *)
(* is invoked exactly once and the run returns the given username with the  *)
(* prompted value as password.                                              *)
C3_PasswordOrPrompt ==
    C3_Case(TRUE) =>
        IF Given(parsed.password) /\ parsed.password.v # ""
        THEN C3_PasswordKept ELSE C3_PromptedOnce

\* --username alice, no --password: the run returned after one prompt.
C3_Witness ==
    /\ C3_Case(TRUE)
    /\ ~Given(parsed.password)
    /\ Returned
    /\ Called("getpass")
    /\ returned[1].password.v = "typed"

\* The outcome C4 describes, decided by the lookup alone.
C4_Outcome ==
    /\ NumCalls("netrc_credentials") = 1
    /\ ~Called("getpass")
    /\ IF RetOf("netrc_credentials") = <<>>
       THEN Exited /\ exit_status = <<1>> /\ returned = <<>>
       ELSE /\ Returned
            /\ Same(returned[1].username, PyStr(RetOf("netrc_credentials")[1]))
            /\ Same(returned[1].password, PyStr(RetOf("netrc_credentials")[2]))

(* C4 as stated: when --netrc is given (bare or with any path) and          *)
(* --cookies is not, a lookup that returns no entry ends the run with exit  *)
(* status 1 without prompting, and a lookup that returns a pair makes that  *)
(* pair the resulting username and password, whatever --username and        *)
(* --password carried, without prompting.                                   *)
C4_Original ==
    (Given(parsed.netrc) /\ ~Given(parsed.cookies) /\ FiltersValid /\ Ended) =>
        C4_Outcome

(* C4 amended: the same, when --netrc is given bare or with a non-empty     *)
(* path.                                                                    *)
C4_NetrcDecides ==
    (/\ Given(parsed.netrc) /\ ~Same(parsed.netrc, PyStr(""))
     /\ ~Given(parsed.cookies) /\ FiltersValid /\ Ended) =>
        C4_Outcome

\* --netrc with --username and --password also given; the file's pair won.
C4_Witness ==
    /\ Returned
    /\ Given(parsed.netrc) /\ ~Given(parsed.cookies)
    /\ Given(parsed.username) /\ parsed.username.v = "alice"
    /\ Given(parsed.password) /\ parsed.password.v = "pw"
    /\ returned[1].username.v = "bob"

Backends == {"wget", "curl", "aria2", "axel"}
Selected(a) == {b \in Backends : Given(a[b])}

(* C5 as stated: a run that selects two or more of --wget, --curl, --aria2, *)
(* --axel ends with exit status 1 and returns no configuration, and every   *)
(* returned configuration has at most one backend field set.                *)
C5_Original ==
    /\ (Ended /\ Cardinality(Selected(parsed)) >= 2) =>
           Exited /\ exit_status = <<1>> /\ returned = <<>>
    /\ Returned => Cardinality(Selected(returned[1])) <= 1

(* C6 as stated: a run whose max_filename_length is not positive fails      *)
(* validation, and every returned configuration has max_filename_length > 0.*)
C6_Original ==
    /\ (Ended /\ parsed.max_filename_length.v <= 0) =>
           Exited /\ exit_status = <<1>> /\ returned = <<>>
    /\ Returned => returned[1].max_filename_length.v > 0

\* The whitespace-split tokens of a string, stated by position: a token starts
\* where a non-blank follows a blank or the start, and runs to the next blank.
TokenStarts(s) ==
    {i \in 1..Len(s) : s[i] \notin Whitespace /\ (i = 1 \/ s[i - 1] \in Whitespace)}
TokenEnd(s, i) ==
    CHOOSE j \in i..Len(s) :
        /\ \A k \in i..j : s[k] \notin Whitespace
        /\ j = Len(s) \/ s[j + 1] \in Whitespace
StartNo(s, k) ==
    CHOOSE i \in TokenStarts(s) : Cardinality({j \in TokenStarts(s) : j < i}) = k - 1
TokensOf(s) ==
    [k \in 1..Cardinality(TokenStarts(s)) |->
        SubSeq(s, StartNo(s, k), TokenEnd(s, StartNo(s, k)))]

AllIntegers(toks) == \A k \in 1..Len(toks) : IntOk(toks[k])
Range(f) == {f[k] : k \in DOMAIN f}

\* The sections check has run (the parser check passed before it).
AfterSections ==
    /\ pc \notin {"check_parser", "check_sections"}
    /\ ~(Exited /\ LastLogged = "error: Invalid parser")

\* The sections check failed: exit status 1, nothing parsed is handed on.
C7_Rejected ==
    /\ Exited /\ exit_status = <<1>> /\ returned = <<>>
    /\ LastLogged = "error: Invalid sections list"
    /\ Same(args.sections, parsed.sections)

(* C7 as stated: when every whitespace-split token of --sections is an      *)
(* integer the resulting sections value holds exactly those integers with   *)
(* duplicates collapsed; when some token is not an integer the run exits    *)
(* with status 1 and no integers are returned.                              *)
C7_Original ==
    AfterSections =>
        LET toks == TokensOf(parsed.sections.v) IN
        IF AllIntegers(toks)
        THEN /\ args.sections.t = "list"
             /\ Range(args.sections.v) = {IntVal(toks[k]) : k \in 1..Len(toks)}
             /\ Cardinality(Range(args.sections.v)) = Len(args.sections.v)
        ELSE C7_Rejected

(* C7 amended: when every whitespace-split token of --sections is an        *)
(* integer the resulting sections value is the list of those integers in    *)
(* token order, duplicates kept (the empty string gives the empty list);    *)
(* when some token is not an integer the run exits with status 1 and no     *)
(* integers are returned, even when other tokens are valid.                 *)
C7_SectionsAllOrNothing ==
    AfterSections =>
        LET toks == TokensOf(parsed.sections.v) IN
        IF AllIntegers(toks)
        THEN /\ args.sections.t = "list"
             /\ Len(args.sections.v) = Len(toks)
             /\ \A k \in 1..Len(toks) : args.sections.v[k] = IntVal(toks[k])
        ELSE C7_Rejected

\* "1 1": the same number twice, and validate_args returned.
C7_Witness ==
    /\ Returned
    /\ parsed.sections.v = <<"1", " ", "1">>
    /\ returned[1].sections.v = <<1, 1>>

\* At most one leading '.' removed from a token.
StripOneDot(tok) == IF tok # <<>> /\ Head(tok) = "." THEN Tail(tok) ELSE tok

C8_Normalized(f) ==
    LET toks == TokensOf(parsed[f].v) IN
    /\ args[f].t = "list"
    /\ Len(args[f].v) = Len(toks)
    /\ \A k \in 1..Len(toks) : args[f].v[k] = StripOneDot(toks[k])

(* C8 as stated: once the extension lists are split, every whitespace-split *)
(* token of --formats and of --skip-formats appears in the result with at   *)
(* most one leading '.' removed and the rest of its text unchanged.         *)
C8_Original ==
    (pc \in {"credentials", "returned", "finished"}
        \/ (Exited /\ LastLogged \notin {"error: Invalid parser",
                                         "error: Invalid sections list"})) =>
        C8_Normalized("formats") /\ C8_Normalized("skip_formats")

\* Every check of the run, evaluated on the arguments as parsed.
ParserOk == parsed.parser.v \in ValidParsers
SectionsOk == AllIntegers(TokensOf(parsed.sections.v))
CredentialsOk ==
    IF Truthy(parsed.cookies)
    THEN Called("os.path.exists") /\ RetOf("os.path.exists")
    ELSE IF Truthy(parsed.netrc)
    THEN Called("netrc_credentials") /\ RetOf("netrc_credentials") # <<>>
    ELSE Truthy(parsed.username)

(* C9: validate_args checks the parser name, then the sections and format   *)
(* filters, then the credentials, and stops at the first check that fails:  *)
(* an invalid parser name ends the run before anything else happens; an     *)
(* invalid sections list ends it before the format lists are split and      *)
(* before any cookie-path check, netrc lookup or prompt; every failed run   *)
(* has exit status 1, exactly one error logged, as the last thing it did,   *)
(* and no configuration; a configuration is returned only when the parser   *)
(* name, the sections list and the credentials all passed.                  *)
C9_FailFast ==
    /\ ~ParserOk =>
          /\ pc \in {"check_parser", "exited"}
          /\ calls = <<>> /\ SameArgs(args, parsed)
          /\ Exited => LastLogged = "error: Invalid parser"
    /\ (ParserOk /\ ~SectionsOk) =>
          /\ pc \in {"check_parser", "check_sections", "exited"}
          /\ calls = <<>> /\ SameArgs(args, parsed)
          /\ Exited => LastLogged = "error: Invalid sections list"
    /\ calls # <<>> => ParserOk /\ SectionsOk /\ Ended /\ Len(calls) = 1
    /\ Exited =>
          /\ exit_status = <<1>> /\ returned = <<>>
          /\ Errors = {Len(logged)}
          /\ ~ParserOk \/ ~SectionsOk \/ ~CredentialsOk
    /\ ~Exited => Errors = {}
    /\ returned # <<>> => Returned /\ ParserOk /\ SectionsOk /\ CredentialsOk
    /\ Returned => returned = <<args>>

\* A bad parser name together with a bad sections list and a cookies file:
\* the run ended at the parser check.
C9_Witness ==
    /\ Exited
    /\ ~ParserOk /\ ~SectionsOk /\ Truthy(parsed.cookies)
    /\ logged = <<"error: Invalid parser">>

(* C10 as stated: validate_args modifies no field of the argument object,   *)
(* on runs that return and on runs that exit alike.                         *)
C10_Original == SameArgs(args, parsed)

Rewritten == {"sections", "formats", "skip_formats", "username", "password"}

(* C10 amended: validate_args rewrites in place only sections, formats,     *)
(* skip_formats (the parsed lists) and, in netrc mode or after a prompt,    *)
(* username and password; every other field of the argument object keeps    *)
(* its parsed value on every run, and a run that exits at the parser or     *)
(* sections check modifies no field at all.                                 *)
C10_FrameOfValidate ==
    /\ \A f \in Fields \ Rewritten : Same(args[f], parsed[f])
    /\ ~Same(args.username, parsed.username) => Called("netrc_credentials")
    /\ ~Same(args.password, parsed.password) =>
          Called("netrc_credentials") \/ Called("getpass")
    /\ (\/ pc \in {"check_parser", "check_sections"}
        \/ Exited /\ LastLogged \in {"error: Invalid parser",
                                     "error: Invalid sections list"}) =>
          SameArgs(args, parsed)

\* A run that exited at the sections check, with other options set.
C10_Witness ==
    /\ Exited /\ LastLogged = "error: Invalid sections list"
    /\ Given(parsed.wget) /\ Same(parsed.netrc, True)
    /\ Same(args.wget, parsed.wget)

====
